---- MODULE Spec2Model ----
(***************************************************************************)
(* A model of filename-sanitizer.py: the FILESYSTEMS legality table, the   *)
(* sanitize_filename function, and the run of main() (configuration,       *)
(* discovery pass, confirmation, transfer pass, summary).                  *)
(*                                                                         *)
(* A character is its code point, a name a sequence of code points.        *)
(***************************************************************************)
EXTENDS Integers, Sequences, FiniteSets, TLC

VARIABLES
    phase,              \* where main() is: the run-level state
    tree,               \* the source tree os.walk(source_root) lists
    dest_fs,            \* the destination filesystem name typed at prompt 4
    requested,          \* the operation typed at prompt 5
    src_writable,       \* os.access(source_root, os.W_OK)
    operation,          \* the local `operation` of main()
    proceed,            \* the answer to "Proceed with transfer? (y/n)"
    total_files, total_bytes,
    transferred_files, transferred_bytes,
    di, k, step,        \* transfer pass: directory index, next file, position in the loop body
    src_files,          \* indices of the source files still present at the source
    dst_dirs,           \* directories present under (and including) dest_root
    dst_files,          \* files present under dest_root, each with the source file it came from
    console,            \* what was printed / reported, in order
    san_pc, san_fs, san_in, san_out, san_out2   \* the sanitizer applied on its own

vars == <<phase, tree, dest_fs, requested, src_writable, operation, proceed,
          total_files, total_bytes, transferred_files, transferred_bytes,
          di, k, step, src_files, dst_dirs, dst_files, console,
          san_pc, san_fs, san_in, san_out, san_out2>>

runVars == <<phase, tree, dest_fs, requested, src_writable, operation, proceed,
             total_files, total_bytes, transferred_files, transferred_bytes,
             di, k, step, src_files, dst_dirs, dst_files, console>>

sanVars == <<san_pc, san_fs, san_in, san_out, san_out2>>

(***************************************************************************)
(* Bounds of the model.                                                    *)
(***************************************************************************)
MaxLen == 3         \* longest name handed to the sanitizer on its own
MaxDirs == 2        \* directories in the source tree, the root included
MaxFiles == 2       \* files in the source tree

\* Code points the names are drawn from: NUL, a control character, space,
\* '"', '*', '/', ':', '_', 'a', '~', DEL and a non-ASCII character.
Alphabet == {0, 31, 32, 34, 42, 47, 58, 95, 97, 126, 127, 233}

\* The files a source directory may hold: "a:b" of 1 byte, "a_b" of 2 bytes.
FileCatalog == {[name |-> <<97, 58, 98>>, size |-> 1],
                [name |-> <<97, 95, 98>>, size |-> 2]}
\* "d", "d:"
DirNames == {<<100>>, <<100, 58>>}

(***************************************************************************)
(* The FILESYSTEMS table.                                                  *)
(***************************************************************************)
FsNames == {"FAT32", "exFAT", "NTFS", "ext4", "HFS+"}

\* '<>:"/\|?*'
WindowsForbidden == {60, 62, 58, 34, 47, 92, 124, 63, 42}

Slash == 47
Colon == 58
Underscore == 95

FILESYSTEMS(fs) ==
    IF fs \in {"FAT32", "exFAT", "NTFS"}
    THEN {c \in 32..126 : c \notin WindowsForbidden}
    ELSE IF fs = "ext4" THEN {c \in 1..126 : c # Slash}
    ELSE {c \in 1..126 : c # Colon}

(***************************************************************************)
(* sanitize_filename: the loop over the characters of `original`.          *)
(***************************************************************************)
RECURSIVE SanitizeLoop(_, _, _, _)
SanitizeLoop(original, allowed_chars, i, new_name_chars) ==
    IF i > Len(original) THEN new_name_chars
    ELSE IF original[i] \in allowed_chars
         THEN SanitizeLoop(original, allowed_chars, i + 1, Append(new_name_chars, original[i]))
         ELSE SanitizeLoop(original, allowed_chars, i + 1, Append(new_name_chars, Underscore))

\* A sanitizer that drops a disallowed character instead of substituting it.
RECURSIVE DropLoop(_, _, _, _)
DropLoop(original, allowed_chars, i, new_name_chars) ==
    IF i > Len(original) THEN new_name_chars
    ELSE IF original[i] \in allowed_chars
         THEN DropLoop(original, allowed_chars, i + 1, Append(new_name_chars, original[i]))
         ELSE DropLoop(original, allowed_chars, i + 1, new_name_chars)

sanitize_filename_dropping(original, allowed_chars) ==
    DropLoop(original, allowed_chars, 1, <<>>)

\* A sanitizer that substitutes the first disallowed character only.
RECURSIVE FirstOnlyLoop(_, _, _, _, _)
FirstOnlyLoop(original, allowed_chars, i, new_name_chars, changed) ==
    IF i > Len(original) THEN new_name_chars
    ELSE IF original[i] \in allowed_chars \/ changed
         THEN FirstOnlyLoop(original, allowed_chars, i + 1,
                            Append(new_name_chars, original[i]), changed)
         ELSE FirstOnlyLoop(original, allowed_chars, i + 1,
                            Append(new_name_chars, Underscore), TRUE)

sanitize_filename_first_only(original, allowed_chars) ==
    FirstOnlyLoop(original, allowed_chars, 1, <<>>, FALSE)

sanitize_filename(original, allowed_chars) ==
    SanitizeLoop(original, allowed_chars, 1, <<>>)

(***************************************************************************)
(* The sanitizer on its own: every name over Alphabet up to MaxLen, every  *)
(* profile of the table.                                                   *)
(***************************************************************************)
NamesUpTo(n) == UNION {[1..m -> Alphabet] : m \in 0..n}

(***************************************************************************)
(* Source trees, as os.walk lists them: the directories top-down (a        *)
(* directory before its subdirectories, a subtree before the next          *)
(* sibling), each by its path relative to source_root, and the files in    *)
(* listing order, each with the index of its directory.                    *)
(***************************************************************************)
Last(s) == s[Len(s)]

Prefixes(p) == {SubSeq(p, 1, j) : j \in 0..Len(p)}

Range(s) == {s[i] : i \in 1..Len(s)}

Extensions(s) ==
    {Append(s, Append(p, d)) : p \in Prefixes(Last(s)), d \in DirNames}

RECURSIVE WalkOrders(_)
WalkOrders(n) ==
    IF n <= 1 THEN {<< <<>> >>}
    ELSE LET S == WalkOrders(n - 1)
         IN  S \cup {t \in UNION {Extensions(s) : s \in S} :
                        Last(t) \notin Range(SubSeq(t, 1, Len(t) - 1))}

FileEntries(nd) ==
    {[dir |-> d, name |-> c.name, size |-> c.size] : d \in 1..nd, c \in FileCatalog}

FileListings(nd) ==
    {f \in UNION {[1..n -> FileEntries(nd)] : n \in 0..MaxFiles} :
        /\ \A i \in 1..Len(f) - 1 : f[i].dir <= f[i + 1].dir
        /\ \A i, j \in 1..Len(f) :
              (i # j /\ f[i].dir = f[j].dir) => f[i].name # f[j].name}

Trees ==
    UNION {{[dirs |-> s, files |-> f] : f \in FileListings(Len(s))} :
              s \in WalkOrders(MaxDirs)}

(***************************************************************************)
(* Helpers over the console and the tree.                                  *)
(***************************************************************************)
Event(kind, what, x, y) == [kind |-> kind, what |-> what, x |-> x, y |-> y]

Count(kind) == Cardinality({i \in 1..Len(console) : console[i].kind = kind})

RECURSIVE SumSizes(_, _)
SumSizes(files, idx) ==
    IF idx = {} THEN 0
    ELSE LET i == CHOOSE j \in idx : TRUE
         IN  files[i].size + SumSizes(files, idx \ {i})

AllFiles == 1..Len(tree.files)

Terminal == {"ConfigError", "AbortedEmpty", "Cancelled", "Completed",
             "Interrupted", "Crashed"}

(***************************************************************************)
(* main(), lines 105-171: the prompts, the destination root, the           *)
(* read-only switch.                                                       *)
(***************************************************************************)
ResolveOperation_no_switch(op, writable) == op

ResolveOperation(op, writable) ==
    IF op = "MOVE" /\ ~writable THEN "COPY" ELSE op

Configure ==
    /\ phase = "NotStarted"
    /\ \E exists \in BOOLEAN, created \in BOOLEAN :
          IF ~exists /\ ~created
          THEN \* dest_root.mkdir raised: sys.exit(1)
               /\ phase' = "ConfigError"
               /\ console' = Append(console, Event("config_error", <<>>, 0, 0))
               /\ UNCHANGED <<operation, dst_dirs>>
          ELSE /\ phase' = "Scanning"
               /\ dst_dirs' = {<<>>}
               /\ operation' = ResolveOperation(requested, src_writable)
               /\ console' = IF requested = "MOVE" /\ ~src_writable
                             THEN Append(console, Event("switch_to_copy", <<>>, 0, 0))
                             ELSE console
    /\ UNCHANGED <<tree, dest_fs, requested, src_writable, proceed,
                   total_files, total_bytes, transferred_files, transferred_bytes,
                   di, k, step, src_files, dst_files>>
    /\ UNCHANGED sanVars

(***************************************************************************)
(* main(), lines 173-195: the discovery pass.  A file whose stat raises    *)
(* is counted with no bytes.                                               *)
(***************************************************************************)
ScanOutcome_always_continue(n) == "AwaitingConfirmation"

ScanOutcome(n) == IF n = 0 THEN "AbortedEmpty" ELSE "AwaitingConfirmation"

Scan ==
    /\ phase = "Scanning"
    /\ \E unreadable \in SUBSET AllFiles :
          /\ total_files' = Len(tree.files)
          /\ total_bytes' = SumSizes(tree.files, AllFiles \ unreadable)
    /\ phase' = ScanOutcome(total_files')
    /\ console' = IF phase' = "AbortedEmpty"
                  THEN Append(console, Event("no_files", <<>>, 0, 0))
                  ELSE Append(console, Event("found", <<>>, total_files', total_bytes'))
    /\ UNCHANGED <<tree, dest_fs, requested, src_writable, operation, proceed,
                   transferred_files, transferred_bytes,
                   di, k, step, src_files, dst_dirs, dst_files>>
    /\ UNCHANGED sanVars

(***************************************************************************)
(* main(), lines 197-215: the confirmation.                                *)
(***************************************************************************)
ConfirmOutcome(answer) == IF answer # "y" THEN "Cancelled" ELSE "Transferring"

Confirm ==
    /\ phase = "AwaitingConfirmation"
    /\ \E answer \in {"y", "n"} :
          /\ proceed' = answer
          /\ phase' = ConfirmOutcome(answer)
          /\ console' = IF phase' = "Cancelled"
                        THEN Append(console, Event("canceled", <<>>, 0, 0))
                        ELSE console
    /\ transferred_files' = 0
    /\ transferred_bytes' = 0
    /\ di' = 1
    /\ k' = 1
    /\ step' = "mkdir"
    /\ UNCHANGED <<tree, dest_fs, requested, src_writable, operation,
                   total_files, total_bytes, src_files, dst_dirs, dst_files>>
    /\ UNCHANGED sanVars

(***************************************************************************)
(* main(), lines 232-237: the next directory of the transfer walk and its  *)
(* mirror under dest_root.  mkdir(parents=True, exist_ok=True) is called   *)
(* outside any try: when it raises, the exception leaves main().           *)
(***************************************************************************)
MirrorDir ==
    /\ phase = "Transferring"
    /\ step = "mkdir"
    /\ di <= Len(tree.dirs)
    /\ LET rel_root == tree.dirs[di]
       IN  \E made \in BOOLEAN :
              IF made \/ rel_root \in dst_dirs
              THEN /\ dst_dirs' = dst_dirs \cup Prefixes(rel_root)
                   /\ step' = "files"
                   /\ UNCHANGED <<phase, console>>
              ELSE /\ phase' = "Crashed"
                   /\ console' = Append(console, Event("traceback", rel_root, 0, 0))
                   /\ UNCHANGED <<dst_dirs, step>>
    /\ UNCHANGED <<tree, dest_fs, requested, src_writable, operation, proceed,
                   total_files, total_bytes, transferred_files, transferred_bytes,
                   di, k, src_files, dst_files>>
    /\ UNCHANGED sanVars

(***************************************************************************)
(* main(), lines 239-269: one file of the current directory.               *)
(***************************************************************************)
Written(files, dest_subdir, safe_name, from) ==
    {r \in files : ~(r.dir = dest_subdir /\ r.name = safe_name)}
        \cup {[dir |-> dest_subdir, name |-> safe_name, from |-> from]}

TransferFile ==
    /\ phase = "Transferring"
    /\ step = "files"
    /\ k <= Len(tree.files)
    /\ tree.files[k].dir = di
    /\ LET fname == tree.files[k].name
           dest_subdir == tree.dirs[di]
           safe_name == sanitize_filename(fname, FILESYSTEMS(dest_fs))
           renamed == IF safe_name # fname
                      THEN Append(console, Event("rename", <<fname, safe_name>>, 0, 0))
                      ELSE console
       IN  \E stat_ok \in BOOLEAN, done \in BOOLEAN :
              LET fsize == IF stat_ok THEN tree.files[k].size ELSE 0
              IN  /\ transferred_files' = transferred_files + 1
                  /\ IF done
                     THEN /\ dst_files' = Written(dst_files, dest_subdir, safe_name, k)
                          /\ src_files' = IF operation = "COPY" THEN src_files
                                          ELSE src_files \ {k}
                          /\ transferred_bytes' = transferred_bytes + fsize
                          /\ console' = Append(renamed,
                                 Event("progress", <<>>, fsize, transferred_files'))
                     ELSE /\ console' = Append(renamed,
                                 Event(IF operation = "COPY" THEN "failed_copy"
                                       ELSE "failed_move", <<dest_subdir, fname>>, 0, 0))
                          /\ UNCHANGED <<dst_files, src_files, transferred_bytes>>
    /\ k' = k + 1
    /\ UNCHANGED <<phase, tree, dest_fs, requested, src_writable, operation, proceed,
                   total_files, total_bytes, di, step, dst_dirs>>
    /\ UNCHANGED sanVars

\* line 232/239: the files of the directory are exhausted, on to the next one
NextDir ==
    /\ phase = "Transferring"
    /\ step = "files"
    /\ IF k > Len(tree.files) THEN TRUE ELSE tree.files[k].dir # di
    /\ di' = di + 1
    /\ step' = "mkdir"
    /\ UNCHANGED <<phase, tree, dest_fs, requested, src_writable, operation, proceed,
                   total_files, total_bytes, transferred_files, transferred_bytes,
                   k, src_files, dst_dirs, dst_files, console>>
    /\ UNCHANGED sanVars

(***************************************************************************)
(* main(), lines 271-273: the walk is over, the summary line is printed.   *)
(***************************************************************************)
Finish ==
    /\ phase = "Transferring"
    /\ step = "mkdir"
    /\ di > Len(tree.dirs)
    /\ phase' = "Completed"
    /\ console' = Append(console,
                         Event("done", <<>>, transferred_files, transferred_bytes))
    /\ UNCHANGED <<tree, dest_fs, requested, src_writable, operation, proceed,
                   total_files, total_bytes, transferred_files, transferred_bytes,
                   di, k, step, src_files, dst_dirs, dst_files>>
    /\ UNCHANGED sanVars

(***************************************************************************)
(* lines 276-281: KeyboardInterrupt anywhere in main() is caught at the    *)
(* top level, which prints one line and exits.                             *)
(***************************************************************************)
Interrupt ==
    /\ phase \notin Terminal
    /\ phase' = "Interrupted"
    /\ console' = Append(console, Event("interrupted", <<>>, 0, 0))
    /\ UNCHANGED <<tree, dest_fs, requested, src_writable, operation, proceed,
                   total_files, total_bytes, transferred_files, transferred_bytes,
                   di, k, step, src_files, dst_dirs, dst_files>>
    /\ UNCHANGED sanVars

(***************************************************************************)
(* The sanitizer applied once, then to its own result.                     *)
(***************************************************************************)
SanitizeOnce ==
    /\ san_pc = "start"
    /\ san_out' = sanitize_filename(san_in, FILESYSTEMS(san_fs))
    /\ san_pc' = "once"
    /\ UNCHANGED <<san_fs, san_in, san_out2>>
    /\ UNCHANGED runVars

SanitizeAgain ==
    /\ san_pc = "once"
    /\ san_out2' = sanitize_filename(san_out, FILESYSTEMS(san_fs))
    /\ san_pc' = "twice"
    /\ UNCHANGED <<san_fs, san_in, san_out>>
    /\ UNCHANGED runVars

(***************************************************************************)
(* Specifications.                                                         *)
(***************************************************************************)
RunIdle ==
    /\ phase = "NotStarted"
    /\ tree = [dirs |-> << <<>> >>, files |-> <<>>]
    /\ dest_fs = "FAT32"
    /\ requested = "COPY"
    /\ src_writable = TRUE
    /\ operation = "UNSET"
    /\ proceed = "UNSET"
    /\ total_files = 0
    /\ total_bytes = 0
    /\ transferred_files = 0
    /\ transferred_bytes = 0
    /\ di = 1
    /\ k = 1
    /\ step = "mkdir"
    /\ src_files = {}
    /\ dst_dirs = {}
    /\ dst_files = {}
    /\ console = <<>>

SanIdle ==
    /\ san_pc = "idle"
    /\ san_fs = "FAT32"
    /\ san_in = <<>>
    /\ san_out = <<>>
    /\ san_out2 = <<>>

Init ==
    /\ phase = "NotStarted"
    /\ tree \in Trees
    /\ dest_fs \in FsNames
    /\ requested \in {"COPY", "MOVE"}
    /\ src_writable \in BOOLEAN
    /\ operation = "UNSET"
    /\ proceed = "UNSET"
    /\ total_files = 0
    /\ total_bytes = 0
    /\ transferred_files = 0
    /\ transferred_bytes = 0
    /\ di = 1
    /\ k = 1
    /\ step = "mkdir"
    /\ src_files = 1..Len(tree.files)
    /\ dst_dirs = {}
    /\ dst_files = {}
    /\ console = <<>>
    /\ SanIdle

Next ==
    \/ Configure
    \/ Scan
    \/ Confirm
    \/ MirrorDir
    \/ TransferFile
    \/ NextDir
    \/ Finish
    \/ Interrupt

Spec == Init /\ [][Next]_vars

InitSanitize ==
    /\ RunIdle
    /\ san_pc = "start"
    /\ san_fs \in FsNames
    /\ san_in \in NamesUpTo(MaxLen)
    /\ san_out = <<>>
    /\ san_out2 = <<>>

NextSanitize ==
    \/ SanitizeOnce
    \/ SanitizeAgain

SpecSanitize == InitSanitize /\ [][NextSanitize]_vars

(***************************************************************************)
(* Properties.                                                             *)
(***************************************************************************)
Legal(name, fs) == \A i \in 1..Len(name) : name[i] \in FILESYSTEMS(fs)

\* C1: every name the run creates under the destination root, a transferred
\* file's name or a mirrored directory's name, consists only of characters
\* that are legal under the chosen destination profile.
C1_DestinationNamesLegal ==
    /\ \A r \in dst_files : Legal(r.name, dest_fs)
    /\ \A d \in dst_dirs : \A i \in 1..Len(d) : Legal(d[i], dest_fs)

\* C2: for every profile and every name, the sanitized name has the length
\* of the name and, at each position, the name's character when it is legal
\* under the profile and the underscore when it is not.
C2_SanitizePositionwise ==
    san_pc \in {"once", "twice"} =>
        /\ Len(san_out) = Len(san_in)
        /\ \A i \in 1..Len(san_in) :
              san_out[i] = IF san_in[i] \in FILESYSTEMS(san_fs)
                           THEN san_in[i] ELSE Underscore

C2_Witness ==
    /\ san_pc = "once"
    /\ san_fs = "FAT32"
    /\ san_in = <<97, 58, 42>>
    /\ san_out = <<97, 95, 95>>

\* C3: sanitizing a sanitized name gives the sanitized name again, for every
\* profile and every name, and the underscore placeholder is a legal
\* character of every profile of the table.
C3_SanitizeIdempotent ==
    /\ san_pc = "twice" => san_out2 = san_out
    /\ \A fs \in FsNames : Underscore \in FILESYSTEMS(fs)

C3_Witness ==
    /\ san_pc = "twice"
    /\ san_fs = "NTFS"
    /\ san_in = <<58, 97, 58>>
    /\ san_out = <<95, 97, 95>>
    /\ san_out2 = <<95, 97, 95>>

\* C4: a file whose copy or move fails leaves the transferred-file tally
\* unchanged, so that the tally, and the count the summary reports, is the
\* number of files whose copy or move succeeded.
C4_TallyCountsSuccesses ==
    /\ phase \in {"Transferring", "Completed"} =>
          transferred_files = Count("progress")
    /\ \A i \in 1..Len(console) :
          console[i].kind = "done" => console[i].x = Count("progress")

\* C5: no transfer of a run overwrites a destination file that an earlier
\* transfer of the same run produced from another source file (the later of
\* two colliding files is refused).
C5_NoOverwrite ==
    [][\A r \in dst_files : r \in dst_files']_vars

\* C6: the transferred-byte tally never exceeds the total byte count of the
\* discovery pass.
C6_BytesWithinDiscovered ==
    transferred_bytes <= total_bytes

\* C7: the run follows NotStarted -> Scanning -> (AbortedEmpty |
\* AwaitingConfirmation) -> Transferring -> Completed: each of these states
\* is entered only from its predecessor in the chain; nothing is copied,
\* moved or mirrored unless discovery found a file and the user confirmed;
\* AbortedEmpty (no file found) and Cancelled (the user declined) are
\* terminal, with no transfer pass and nothing created under the
\* destination root.
C7_NothingTransferred ==
    /\ dst_files = {}
    /\ dst_dirs \subseteq {<<>>}
    /\ src_files = AllFiles
    /\ transferred_files = 0
    /\ Count("progress") = 0

C7_Gate ==
    /\ (phase \in {"Transferring", "Completed"} \/ ~C7_NothingTransferred) =>
          (total_files > 0 /\ proceed = "y")
    /\ phase = "AbortedEmpty" => (total_files = 0 /\ C7_NothingTransferred)
    /\ phase = "Cancelled" => (proceed = "n" /\ C7_NothingTransferred)
    /\ phase = "AwaitingConfirmation" => total_files > 0

C7_Step ==
    /\ phase \in {"AbortedEmpty", "Cancelled", "Completed"} => phase' = phase
    /\ phase' # phase =>
          /\ phase' = "Scanning" => phase = "NotStarted"
          /\ phase' \in {"AbortedEmpty", "AwaitingConfirmation"} => phase = "Scanning"
          /\ phase' \in {"Cancelled", "Transferring"} => phase = "AwaitingConfirmation"
          /\ phase' = "Completed" => phase = "Transferring"
          /\ phase' # "NotStarted"

C7_RunStateMachine == [](C7_Gate) /\ [][C7_Step]_vars

C7_Witness ==
    /\ phase = "AbortedEmpty"
    /\ Len(tree.dirs) = 2
    /\ total_files = 0
    /\ dst_dirs = {<<>>}

\* C8: once the transfer pass has begun, the run summary is emitted exactly
\* once on every way the run can end, normal completion and a user
\* interrupt alike.
C8_SummaryOnEveryEnd ==
    /\ Count("done") <= 1
    /\ (proceed = "y" /\ phase \in {"Completed", "Interrupted"}) => Count("done") = 1

\* C9: when MOVE is requested and the source root is not writable, the
\* operation is COPY for the whole run, the notice of the switch is the
\* first thing reported (so before the transfer pass), and every source
\* file is still at the source; with a writable source root the operation
\* is the requested one and no switch is reported.
C9_ReadOnlySourceForcesCopy ==
    operation # "UNSET" =>
        /\ (requested = "MOVE" /\ ~src_writable) =>
              /\ operation = "COPY"
              /\ Count("switch_to_copy") = 1
              /\ console[1].kind = "switch_to_copy"
              /\ src_files = AllFiles
        /\ src_writable =>
              /\ operation = requested
              /\ Count("switch_to_copy") = 0

C9_Witness ==
    /\ phase = "Completed"
    /\ requested = "MOVE"
    /\ ~src_writable
    /\ Cardinality(dst_files) = 2
    /\ src_files = AllFiles

\* C10: the destination directory of a visited source directory exists
\* before any file of that directory is processed, and a failure to create
\* it does not end the run: the run goes on transferring and completes.
C10_MirrorFailureIsolated ==
    /\ (phase = "Transferring" /\ step = "files") => tree.dirs[di] \in dst_dirs
    /\ Count("traceback") > 0 => phase \in {"Transferring", "Completed"}

====
